---- MODULE Spec2Model ----
(***************************************************************************)
(* Model of the nova-bokun-api gateway.  The repository holds four         *)
(* variants of the same Express service:                                   *)
(*   "v1"  src/server.js lines 1-185     (key pair, header interceptor)    *)
(*   "v2"  src/server.js lines 187-380   (token / key pair, no try-catch)  *)
(*   "v3"  src/server.js lines 382-544   (key pair, clamped paging)        *)
(*   "v4"  src/unnamed/part_000          (key pair, clamped paging)        *)
(* The variable `variant` says which of them is the deployed program.      *)
(*                                                                         *)
(* JavaScript values are tagged records [t, v]; the tag t decides the      *)
(* shape of v.  Numbers are held in tenths (fixed point, one decimal       *)
(* digit) so that a fractional query parameter such as "2.5" is a value.   *)
(* Strings are sequences of one-character strings, so that trim, Number()  *)
(* and template literals are computed character by character.              *)
(***************************************************************************)
EXTENDS Integers, Sequences, FiniteSets, TLC

VARIABLES variant, env, proc, headers, req, raw, tour, flight

vars == <<variant, env, proc, headers, req, raw, tour, flight>>

-----------------------------------------------------------------------------
(* JavaScript values *)

Undef == [t |-> "undefined", v |-> 0]

Null == [t |-> "null", v |-> 0]

NaN == [t |-> "NaN", v |-> 0]

Throw == [t |-> "throw", v |-> 0]

Num(tenths) == [t |-> "number", v |-> tenths]

N(i) == Num(i * 10)

Str(cs) == [t |-> "string", v |-> cs]

Bool(b) == [t |-> "boolean", v |-> b]

Arr(s) == [t |-> "array", v |-> s]

Obj(f) == [t |-> "object", v |-> f]

EmptyObj == Obj(<<>>)

IsNullish(x) == x.t \in {"undefined", "null"}

\* ToBoolean
Truthy(x) ==
  CASE x.t \in {"undefined", "null", "NaN", "throw"} -> FALSE
    [] x.t = "number" -> x.v # 0
    [] x.t = "string" -> x.v # <<>>
    [] x.t = "boolean" -> x.v
    [] OTHER -> TRUE

\* a || b
Or(a, b) == IF Truthy(a) THEN a ELSE b

\* a ?? b
Nullish(a, b) == IF IsNullish(a) THEN b ELSE a

\* o.k on a value that is not null or undefined: an own property of an
\* object, undefined on everything else (none of the keys the program reads
\* is inherited from Object, Array, String or Number prototypes)
Get(o, k) == IF o.t = "object" /\ k \in DOMAIN o.v THEN o.v[k] ELSE Undef

\* o?.k
OptGet(o, k) == IF IsNullish(o) THEN Undef ELSE Get(o, k)

\* x[0] on a value that is not null or undefined
Index0(x) ==
  CASE x.t = "array" -> IF Len(x.v) > 0 THEN x.v[1] ELSE Undef
    [] x.t = "string" -> IF Len(x.v) > 0 THEN Str(<<x.v[1]>>) ELSE Undef
    [] x.t = "object" -> Get(x, "0")
    [] OTHER -> Undef

IsInteger(x) == x.t = "number" /\ x.v % 10 = 0

-----------------------------------------------------------------------------
(* Number <-> string conversions *)

DigitChars == <<"0", "1", "2", "3", "4", "5", "6", "7", "8", "9">>

WhiteSpace == {" "}

IsDigit(c) == \E d \in 1..10 : DigitChars[d] = c

DigitVal(c) == (CHOOSE d \in 1..10 : DigitChars[d] = c) - 1

RECURSIVE TrimStart(_)
TrimStart(cs) ==
  IF cs # <<>> /\ Head(cs) \in WhiteSpace THEN TrimStart(Tail(cs)) ELSE cs

RECURSIVE TrimEnd(_)
TrimEnd(cs) ==
  IF cs # <<>> /\ cs[Len(cs)] \in WhiteSpace
  THEN TrimEnd(SubSeq(cs, 1, Len(cs) - 1))
  ELSE cs

\* String.prototype.trim
Trim(cs) == TrimEnd(TrimStart(cs))

RECURSIVE DigitsValue(_)
DigitsValue(cs) ==
  IF cs = <<>> THEN 0
  ELSE DigitsValue(SubSeq(cs, 1, Len(cs) - 1)) * 10 + DigitVal(cs[Len(cs)])

AllDigits(cs) == \A i \in 1..Len(cs) : IsDigit(cs[i])

\* the unsigned decimal literal  digits [ "." [digit] ]  |  "." digit ,
\* in tenths; NaN for anything else (no exponent, hex or Infinity literal
\* can be spelled with the characters the inputs are drawn from)
UnsignedToNumber(cs) ==
  LET dot == {i \in 1..Len(cs) : cs[i] = "."}
  IN IF dot = {}
     THEN IF cs # <<>> /\ AllDigits(cs) THEN Num(DigitsValue(cs) * 10) ELSE NaN
     ELSE LET p  == CHOOSE i \in dot : \A j \in dot : i <= j
              ip == SubSeq(cs, 1, p - 1)
              fp == SubSeq(cs, p + 1, Len(cs))
          IN IF AllDigits(ip) /\ AllDigits(fp) /\ Len(ip) + Len(fp) > 0
                /\ Len(fp) <= 1
             THEN Num(DigitsValue(ip) * 10 + DigitsValue(fp))
             ELSE NaN

\* StringToNumber: Number(s) for a string s
StringToNumber(cs) ==
  LET s == Trim(cs)
  IN IF s = <<>> THEN Num(0)
     ELSE IF Head(s) = "-"
          THEN LET u == UnsignedToNumber(Tail(s))
               IN IF u.t = "number" THEN Num(0 - u.v) ELSE NaN
          ELSE IF Head(s) = "+" THEN UnsignedToNumber(Tail(s))
          ELSE UnsignedToNumber(s)

\* Number(x)
ToNumber(x) ==
  CASE x.t = "undefined" -> NaN
    [] x.t = "null" -> Num(0)
    [] x.t = "number" -> x
    [] x.t = "string" -> StringToNumber(x.v)
    [] x.t = "boolean" -> IF x.v THEN N(1) ELSE N(0)
    [] OTHER -> NaN

\* Math.min(a, b) and Math.max(a, b): NaN if either argument is NaN
MathMin(a, b) ==
  IF a.t # "number" \/ b.t # "number" THEN NaN
  ELSE IF a.v <= b.v THEN a ELSE b

MathMax(a, b) ==
  IF a.t # "number" \/ b.t # "number" THEN NaN
  ELSE IF a.v >= b.v THEN a ELSE b

RECURSIVE NatToChars(_)
NatToChars(n) ==
  IF n < 10 THEN <<DigitChars[n + 1]>>
  ELSE NatToChars(n \div 10) \o <<DigitChars[(n % 10) + 1]>>

\* Number::toString for a value held in tenths
NumberToChars(tenths) ==
  LET a == IF tenths < 0 THEN 0 - tenths ELSE tenths
      body == NatToChars(a \div 10)
                \o (IF a % 10 = 0 THEN <<>> ELSE <<".">> \o NatToChars(a % 10))
  IN IF tenths < 0 THEN <<"-">> \o body ELSE body

\* whether ToString(x) throws a TypeError: an object with an own "toString"
\* property (never callable in JSON data) has no primitive conversion; an
\* array joins the conversions of its elements
RECURSIVE ToStringThrows(_)
ToStringThrows(x) ==
  CASE x.t = "object" -> "toString" \in DOMAIN x.v
    [] x.t = "array" ->
         \E i \in 1..Len(x.v) : ~IsNullish(x.v[i]) /\ ToStringThrows(x.v[i])
    [] OTHER -> FALSE

\* ToString(x), the conversion a template literal applies, where it does
\* not throw
RECURSIVE ToChars(_)
RECURSIVE JoinChars(_)
ToChars(x) ==
  CASE x.t = "undefined" -> <<"u", "n", "d", "e", "f", "i", "n", "e", "d">>
    [] x.t = "null" -> <<"n", "u", "l", "l">>
    [] x.t = "NaN" -> <<"N", "a", "N">>
    [] x.t = "number" -> NumberToChars(x.v)
    [] x.t = "string" -> x.v
    [] x.t = "boolean" -> IF x.v THEN <<"t", "r", "u", "e">>
                          ELSE <<"f", "a", "l", "s", "e">>
    [] x.t = "array" -> JoinChars(x.v)
    [] OTHER -> <<"[", "o", "b", "j", "e", "c", "t", " ",
                  "O", "b", "j", "e", "c", "t", "]">>

\* Array.prototype.join(","): null and undefined elements join as ""
JoinChars(s) ==
  IF s = <<>> THEN <<>>
  ELSE LET h == IF IsNullish(s[1]) THEN <<>> ELSE ToChars(s[1])
       IN IF Len(s) = 1 THEN h ELSE h \o <<",">> \o JoinChars(Tail(s))

\* `${prefix}${x}`
Template(prefix, x) ==
  IF ToStringThrows(x) THEN Throw ELSE Str(prefix \o ToChars(x))

ToursPath == <<"/", "t", "o", "u", "r", "s", "/">>

-----------------------------------------------------------------------------
(* mapActivity: the normalizer, one definition per variant *)

USD == Str(<<"U", "S", "D">>)

Untitled == Str(<<"U", "n", "t", "i", "t", "l", "e", "d">>)

\* the default parameter (a = {}): only undefined is replaced
DefaultParam(a) == IF a.t = "undefined" THEN EmptyObj ELSE a

\* the object literal a variant returns, or the exception raised while its
\* fields were evaluated
TourOrThrow(fields) == IF fields.url = Throw THEN Throw ELSE Obj(fields)

\* server.js lines 85-109
mapActivityV1(arg) ==
  LET a == DefaultParam(arg)
      images == Or(Or(Get(a, "images"), Get(a, "media")), Arr(<<>>))
      cover == Or(Or(OptGet(Index0(images), "url"),
                     OptGet(Index0(images), "originalUrl")), Null)
      ratingValue == Nullish(Nullish(OptGet(Get(a, "feedback"), "averageRating"),
                                     Get(a, "rating")), Null)
      ratingCount == Nullish(Nullish(OptGet(Get(a, "feedback"), "count"),
                                     Get(a, "reviewCount")), Null)
      pricing == Or(Or(Get(a, "pricing"), Get(a, "price")), EmptyObj)
      fromPrice == Nullish(Nullish(Get(pricing, "fromPrice"),
                                   Get(pricing, "amount")), Null)
      currency == Nullish(Nullish(Get(pricing, "currency"),
                                  Get(pricing, "currencyCode")), USD)
      url == Or(Get(a, "publicUrl"),
                IF Truthy(Get(a, "slug")) THEN Template(ToursPath, Get(a, "slug"))
                ELSE Null)
  IN IF IsNullish(a) THEN Throw
     ELSE TourOrThrow([id |-> Or(Get(a, "id"), Get(a, "activityId")),
                       title |-> Or(Get(a, "title"), Get(a, "name")),
                       subtitle |-> Or(Or(Get(a, "subtitle"), Get(a, "tagline")), Null),
                       slug |-> Or(Get(a, "slug"), Null),
                       cover |-> cover,
                       rating |-> ratingValue,
                       ratingCount |-> ratingCount,
                       fromPrice |-> fromPrice,
                       currency |-> currency,
                       duration |-> Or(Or(Get(a, "duration"), Get(a, "durationText")), Null),
                       url |-> url])

\* server.js lines 267-291
mapActivityV2(arg) ==
  LET a == DefaultParam(arg)
      images == Or(Or(Get(a, "images"), Get(a, "media")), Arr(<<>>))
      cover == Or(Or(OptGet(Index0(images), "url"),
                     OptGet(Index0(images), "originalUrl")), Null)
      ratingValue == Nullish(Nullish(OptGet(Get(a, "feedback"), "averageRating"),
                                     Get(a, "rating")), Null)
      ratingCount == Nullish(Nullish(OptGet(Get(a, "feedback"), "count"),
                                     Get(a, "reviewCount")), Null)
      pricing == Or(Or(Get(a, "pricing"), Get(a, "price")), EmptyObj)
      fromPrice == Nullish(Nullish(Get(pricing, "fromPrice"),
                                   Get(pricing, "amount")), Null)
      currency == Or(Or(Get(pricing, "currency"),
                        Get(pricing, "currencyCode")), USD)
      url == Or(Get(a, "publicUrl"),
                IF Truthy(Get(a, "slug")) THEN Template(ToursPath, Get(a, "slug"))
                ELSE Null)
  IN IF IsNullish(a) THEN Throw
     ELSE TourOrThrow([id |-> Or(Get(a, "id"), Get(a, "activityId")),
                       title |-> Or(Get(a, "title"), Get(a, "name")),
                       subtitle |-> Or(Or(Get(a, "subtitle"), Get(a, "tagline")), Null),
                       slug |-> Or(Get(a, "slug"), Null),
                       cover |-> cover,
                       rating |-> ratingValue,
                       ratingCount |-> ratingCount,
                       fromPrice |-> fromPrice,
                       currency |-> currency,
                       duration |-> Or(Or(Get(a, "duration"), Get(a, "durationText")), Null),
                       url |-> url])

\* the part of mapActivity that server.js lines 436-477 and part_000 lines
\* 64-128 share; `title` is the one field they compute differently
mapActivityClamped(arg, title) ==
  LET a == DefaultParam(arg)
      images == Or(Or(Or(Get(a, "images"), OptGet(Get(a, "media"), "images")),
                      Get(a, "media")), Arr(<<>>))
      cover == Or(Or(Or(OptGet(Get(a, "coverImage"), "url"),
                        OptGet(Index0(images), "url")),
                     OptGet(Index0(images), "originalUrl")), Null)
      ratingValue == Or(Or(OptGet(Get(a, "feedback"), "averageRating"),
                           Get(a, "rating")), Null)
      ratingCount == Or(Or(OptGet(Get(a, "feedback"), "count"),
                           Get(a, "reviewCount")), Null)
      priceFrom ==
        Nullish(Nullish(Nullish(Nullish(Nullish(
          OptGet(Get(a, "priceFrom"), "amount"),
          OptGet(Get(a, "fromPrice"), "amount")),
          OptGet(Get(a, "lowestPrice"), "amount")),
          OptGet(Get(a, "price"), "amount")),
          OptGet(Get(a, "pricing"), "fromPrice")),
          Null)
      currency ==
        Nullish(Nullish(Nullish(Nullish(Nullish(
          OptGet(Get(a, "priceFrom"), "currency"),
          OptGet(Get(a, "fromPrice"), "currency")),
          OptGet(Get(a, "lowestPrice"), "currency")),
          OptGet(Get(a, "price"), "currency")),
          OptGet(Get(a, "pricing"), "currency")),
          USD)
      id == Nullish(Nullish(Nullish(Get(a, "id"), Get(a, "activityId")),
                            Get(a, "productId")), Get(a, "bokunId"))
      slug == Or(Get(a, "slug"), Null)
      url == Or(Get(a, "publicUrl"),
                IF Truthy(slug) THEN Template(ToursPath, slug)
                ELSE Template(ToursPath, id))
  IN IF IsNullish(a) THEN Throw
     ELSE TourOrThrow([id |-> id,
                       title |-> title,
                       subtitle |-> Or(Or(Get(a, "subtitle"), Get(a, "tagline")), Null),
                       slug |-> slug,
                       cover |-> cover,
                       rating |-> ratingValue,
                       ratingCount |-> ratingCount,
                       fromPrice |-> priceFrom,
                       currency |-> currency,
                       duration |-> Or(Or(Get(a, "duration"), Get(a, "durationText")), Null),
                       url |-> url])

\* server.js lines 436-477
mapActivityV3(arg) ==
  LET a == DefaultParam(arg)
  IN mapActivityClamped(arg, Nullish(Nullish(Get(a, "title"), Get(a, "name")), Untitled))

\* part_000 lines 64-128
mapActivityV4(arg) ==
  LET a == DefaultParam(arg)
  IN mapActivityClamped(arg, Nullish(Nullish(Nullish(Get(a, "title"), Get(a, "name")),
                                             Get(a, "activityName")), Untitled))

mapActivity(vr, a) ==
  CASE vr = "v1" -> mapActivityV1(a)
    [] vr = "v2" -> mapActivityV2(a)
    [] vr = "v3" -> mapActivityV3(a)
    [] OTHER -> mapActivityV4(a)

-----------------------------------------------------------------------------
(* the raw upstream records the normalizer is applied to *)

Variants == {"v1", "v2", "v3", "v4"}

\* an optional property: absent, or present with one of the values
Opt(k, Vals) == {<<>>} \cup {k :> x : x \in Vals}

sCover == Str(<<"c", "o", "v", "e", "r">>)

sImg == Str(<<"i", "m", "g">>)

sOrig == Str(<<"o", "r", "i", "g">>)

sMedia == Str(<<"m", "e", "d", "i", "a">>)

sNested == Str(<<"n", "e", "s", "t", "e", "d">>)

sReef == Str(<<"r", "e", "e", "f", "-", "t", "o", "u", "r">>)

sPublic == Str(<<"h", "t", "t", "p", "s", ":", "/", "/", "x", ".", "i", "o", "/", "t">>)

sEmpty == Str(<<>>)

sEUR == Str(<<"E", "U", "R">>)

sGBP == Str(<<"G", "B", "P">>)

sCAD == Str(<<"C", "A", "D">>)

sMXN == Str(<<"M", "X", "N">>)

sJPY == Str(<<"J", "P", "Y">>)

sCHF == Str(<<"C", "H", "F">>)

sName == Str(<<"R", "e", "e", "f">>)

\* an object whose own "toString" property shadows Object.prototype.toString
ShadowObj == Obj("toString" :> N(1))

FeedbackVals ==
  {Null, EmptyObj, sName, N(5),
   Obj([averageRating |-> N(0), count |-> N(0)]),
   Obj([averageRating |-> Num(48), count |-> N(12)]),
   Obj([averageRating |-> Null, count |-> Null])}

RatingRecords ==
  {Obj(f @@ g @@ h) : f \in Opt("feedback", FeedbackVals),
                      g \in Opt("rating", {N(0), Num(45), Null}),
                      h \in Opt("reviewCount", {N(3)})}

CoverRecords ==
  {Obj(f @@ g @@ h) :
     f \in Opt("coverImage", {Obj([url |-> sCover]), Obj([url |-> sEmpty]),
                              Null, sName}),
     g \in Opt("images", {Arr(<<Obj([url |-> sImg])>>),
                          Arr(<<Obj([originalUrl |-> sOrig])>>),
                          Arr(<<Null>>), Arr(<<>>), sName, N(5), Null}),
     h \in Opt("media", {Arr(<<Obj([url |-> sMedia])>>),
                         Obj([images |-> Arr(<<Obj([url |-> sNested])>>)])})}

PriceRecords ==
  {Obj(f @@ g @@ h @@ i @@ j) :
     f \in Opt("priceFrom", {Obj([amount |-> N(10), currency |-> sEUR]),
                             Obj([currency |-> sEmpty]),
                             Obj([currency |-> Null]), Null}),
     g \in Opt("fromPrice", {Obj([amount |-> N(20), currency |-> sGBP])}),
     h \in Opt("lowestPrice", {Obj([currency |-> sCAD])}),
     i \in Opt("price", {Obj([amount |-> N(30), currency |-> sMXN]), N(30)}),
     j \in Opt("pricing", {Obj([fromPrice |-> N(40), currency |-> sJPY]),
                           Obj([amount |-> N(5), currencyCode |-> sCHF]),
                           Obj([currency |-> sEmpty])})}

UrlRecords ==
  {Obj(f @@ g @@ h @@ i @@ j) :
     f \in Opt("publicUrl", {sPublic, sEmpty}),
     g \in Opt("slug", {sReef, sEmpty, Null, ShadowObj}),
     h \in Opt("id", {N(7), N(0), Null, sName, Arr(<<N(1), N(2)>>),
                      EmptyObj, ShadowObj}),
     i \in Opt("activityId", {N(9)}),
     j \in Opt("bokunId", {N(11)})}

TextRecords ==
  {Obj(f @@ g @@ h @@ i @@ j) :
     f \in Opt("title", {sName, sEmpty, Null, N(3)}),
     g \in Opt("name", {sReef}),
     h \in Opt("activityName", {sImg}),
     i \in Opt("subtitle", {sCover, Arr(<<>>)}),
     j \in Opt("durationText", {sOrig})}

RawRecords ==
  RatingRecords \cup CoverRecords \cup PriceRecords \cup UrlRecords \cup TextRecords

\* what mapActivity may be handed: a record, or a payload that is no object
RawInputs == RawRecords \cup {Undef, Null, sName, N(5), Arr(<<>>)}

-----------------------------------------------------------------------------
(* JSON serialisation and URL encoding *)

\* JSON.stringify then parse, as res.json and the axios request body do:
\* NaN becomes null, an undefined property is dropped, an undefined array
\* element becomes null
RECURSIVE Jsonify(_)
Jsonify(x) ==
  CASE x.t = "NaN" -> Null
    [] x.t = "object" ->
         Obj([k \in {j \in DOMAIN x.v : x.v[j].t # "undefined"} |-> Jsonify(x.v[k])])
    [] x.t = "array" ->
         Arr([i \in 1..Len(x.v) |->
                IF x.v[i].t = "undefined" THEN Null ELSE Jsonify(x.v[i])])
    [] OTHER -> x

Unreserved ==
  {"a", "b", "c", "d", "e", "f", "g", "h", "i", "j", "k", "l", "m", "n", "o",
   "p", "q", "r", "s", "t", "u", "v", "w", "x", "y", "z",
   "0", "1", "2", "3", "4", "5", "6", "7", "8", "9",
   "-", "_", ".", "!", "~", "*", "'", "(", ")"}

\* the escape of a character outside the unreserved set (those the path
\* parameters are spelled with)
PercentCode(c) ==
  CASE c = " " -> <<"%", "2", "0">>
    [] c = "/" -> <<"%", "2", "F">>
    [] OTHER -> <<"%", "3", "F">>

\* encodeURIComponent
RECURSIVE encodeURIComponent(_)
encodeURIComponent(cs) ==
  IF cs = <<>> THEN <<>>
  ELSE (IF Head(cs) \in Unreserved THEN <<Head(cs)>> ELSE PercentCode(Head(cs)))
         \o encodeURIComponent(Tail(cs))

-----------------------------------------------------------------------------
(* configuration and startup *)

sKey == Str(<<"k", "e", "y">>)

sSecret == Str(<<"s", "e", "c", "r", "e", "t">>)

sToken == Str(<<"t", "o", "k", "e", "n">>)

sVendor == Str(<<"v", "4", "2">>)

Envs ==
  [key : {Undef, sKey}, secret : {Undef, sSecret}, token : {Undef, sToken},
   vendor : {Undef, sVendor}]

\* const VENDOR_ID = process.env.BOKUN_VENDOR_ID || ""
VENDOR_ID(e) == Or(e.vendor, sEmpty)

\* const ACCESS_KEY / SECRET_KEY / ACCESS_TOKEN = process.env.X || ""  (v2)
ACCESS_KEY(e) == Or(e.key, sEmpty)

SECRET_KEY(e) == Or(e.secret, sEmpty)

ACCESS_TOKEN(e) == Or(e.token, sEmpty)

\* v2: ACCESS_TOKEN ? "token" : (ACCESS_KEY && SECRET_KEY ? "keypair" : "none")
AUTH_MODE(e) ==
  IF Truthy(ACCESS_TOKEN(e)) THEN "token"
  ELSE IF Truthy(ACCESS_KEY(e)) /\ Truthy(SECRET_KEY(e)) THEN "keypair"
  ELSE "none"

\* v1, v3, v4: if (!ACCESS_KEY || !SECRET_KEY) process.exit(1)
MissingKeyPair(e) == ~Truthy(e.key) \/ ~Truthy(e.secret)

\* v2: the credential headers buildBokunClient puts on the axios client
buildBokunClient(e) ==
  CASE AUTH_MODE(e) = "keypair" -> {"Bokun-Access-Key", "Bokun-Secret-Key"}
    [] AUTH_MODE(e) = "token" -> {"X-Bokun-Access-Token", "Authorization"}
    [] OTHER -> {}

\* v1: the credential headers the request interceptor sets on every call
InterceptorHeaders ==
  {"Bokun-Access-Key", "X-Bokun-Access-Key", "X-Access-Key", "X-API-KEY",
   "X-Api-Key", "X-Booking-API-Key", "X-Booking-Api-Key",
   "Bokun-Secret-Key", "X-Bokun-Secret-Key", "X-Secret-Key", "X-API-SECRET",
   "X-Api-Secret", "X-Booking-API-Secret", "X-Booking-Api-Secret"}

\* v3, v4: the credential headers given to axios.create
CreateHeaders ==
  {"X-Bokun-AccessKey", "X-Bokun-SecretKey", "Bokun-Access-Key", "Bokun-Secret-Key"}

ClientHeaders(vr, e) ==
  CASE vr = "v1" -> InterceptorHeaders
    [] vr = "v2" -> buildBokunClient(e)
    [] OTHER -> CreateHeaders

\* the axios timeout of the variant, in milliseconds
TimeoutMs(vr) == IF vr \in {"v1", "v2"} THEN 15000 ELSE 20000

NoResponse == [sent |-> 0, status |-> 0, body |-> Undef]

NoOutcome == [kind |-> "none", status |-> 0, data |-> Undef]

Idle ==
  [pc |-> "idle", kind |-> "none", query |-> Undef, call |-> Undef,
   upstream |-> NoOutcome, res |-> NoResponse]

MaxReq == 2

\* the inbound requests the server handles at the same time
Requests == 1..MaxReq

\* a request not yet received; calls counts the upstream calls issued for it
IdleFlight ==
  [pc |-> "idle", kind |-> "none", query |-> Undef, call |-> Undef,
   upstream |-> NoOutcome, res |-> NoResponse, calls |-> 0]

NoFlight == [r \in Requests |-> IdleFlight]

Init ==
  /\ variant \in Variants
  /\ env \in Envs
  /\ proc = "starting"
  /\ headers = {}
  /\ req = Idle
  /\ raw = Undef
  /\ tour = Undef
  /\ flight = NoFlight

\* module load up to app.listen: the credential check, then the client
Startup ==
  /\ proc = "starting"
  /\ IF variant # "v2" /\ MissingKeyPair(env)
     THEN proc' = "exited" /\ UNCHANGED headers
     ELSE proc' = "listening" /\ headers' = ClientHeaders(variant, env)
  /\ UNCHANGED <<variant, env, req, raw, tour, flight>>

-----------------------------------------------------------------------------
(* GET /api/tours: request translation *)

MaxPageSize == 50

\* const page
page(vr, q) ==
  IF vr \in {"v1", "v2"} THEN ToNumber(Or(Get(q, "page"), N(1)))
  ELSE MathMax(N(1), Or(ToNumber(Get(q, "page")), N(1)))

\* const pageSize (v1, v2) / const limit (v3, v4)
pageSize(vr, q) ==
  CASE vr = "v1" ->
         MathMin(ToNumber(Or(Or(Get(q, "pageSize"), Get(q, "limit")), N(20))),
                 N(MaxPageSize))
    [] vr = "v2" ->
         MathMin(ToNumber(Or(Or(Get(q, "pageSize"), Get(q, "limit")), N(6))),
                 N(MaxPageSize))
    [] OTHER ->
         MathMax(N(1), MathMin(N(MaxPageSize),
                               Or(Or(ToNumber(Get(q, "limit")),
                                     ToNumber(Get(q, "pageSize"))), N(6))))

\* const queryText (v1, v3, v4) / const query (v2); .toString() of the
\* string it is applied to
queryText(vr, q) ==
  CASE vr = "v1" -> Str(ToChars(Or(Get(q, "query"), sEmpty)))
    [] vr = "v2" -> Str(ToChars(Or(Or(Get(q, "query"), Get(q, "q")), sEmpty)))
    [] OTHER -> Str(Trim(ToChars(Or(Get(q, "query"), sEmpty))))

\* const body
SearchBody(vr, q, e) ==
  Obj(("page" :> page(vr, q)) @@ ("pageSize" :> pageSize(vr, q))
      @@ (IF Truthy(queryText(vr, q)) THEN "query" :> queryText(vr, q) ELSE <<>>)
      @@ (IF Truthy(VENDOR_ID(e)) THEN "vendorId" :> VENDOR_ID(e) ELSE <<>>))

SearchPath == <<"/", "a", "c", "t", "i", "v", "i", "t", "y", ".", "j", "s", "o", "n", "/", "s", "e", "a", "r", "c", "h">>

DetailPrefix == <<"/", "a", "c", "t", "i", "v", "i", "t", "y", ".", "j", "s", "o", "n", "/">>

\* bokun.post("/activity.json/search", body): axios sends the body as JSON
SearchCall(vr, q, e) ==
  [method |-> "POST", path |-> SearchPath, body |-> Jsonify(SearchBody(vr, q, e))]

\* bokun.get(`/activity.json/${id}`), the id URI-encoded in v2 only
DetailCall(vr, id) ==
  [method |-> "GET",
   path |-> DetailPrefix \o (IF vr = "v2" THEN encodeURIComponent(id.v) ELSE ToChars(id)),
   body |-> Undef]

-----------------------------------------------------------------------------
(* GET /api/tours: response composition *)

IsArray(x) == x.t = "array"

\* the upstream list: const items / list (v1, v2), const rawItems (v3, v4)
rawItems(vr, data) ==
  IF vr \in {"v1", "v2"}
  THEN IF IsArray(Or(OptGet(data, "results"), OptGet(data, "items")))
       THEN Or(Get(data, "results"), Get(data, "items"))
       ELSE Arr(<<>>)
  ELSE IF IsArray(OptGet(data, "results")) THEN Get(data, "results")
       ELSE IF IsArray(OptGet(data, "items")) THEN Get(data, "items")
       ELSE IF IsArray(data) THEN data
       ELSE Arr(<<>>)

\* list.map(mapActivity): the array of Tours, or the exception of the first
\* element on which mapActivity throws
MapItems(vr, list) ==
  LET m == [i \in 1..Len(list.v) |-> mapActivity(vr, list.v[i])]
  IN IF \E i \in 1..Len(list.v) : m[i] = Throw THEN Throw ELSE Arr(m)

\* ListTotal with the upstream total ignored: total is always items.length
ListTotal_ItemsLength(data, items) == N(Len(items.v))

\* total: data?.total ?? items.length
ListTotal(data, items) == Nullish(OptGet(data, "total"), N(Len(items.v)))

\* the object handed to res.json on success, or the exception raised
ListResult(vr, q, data) ==
  LET items == MapItems(vr, rawItems(vr, data))
  IN IF items = Throw THEN Throw
     ELSE Obj([page |-> page(vr, q), pageSize |-> pageSize(vr, q),
               total |-> ListTotal(data, items), items |-> items])

\* res.json({ ...mapActivity(data), raw: data }), or the exception raised
DetailResult(vr, data) ==
  LET m == mapActivity(vr, data)
  IN IF m = Throw THEN Throw ELSE Obj(("raw" :> data) @@ m.v)

-----------------------------------------------------------------------------
(* errors *)

\* the value an await on the axios call throws
AxiosError(vr, o) ==
  CASE o.kind = "response" ->
         [hasResponse |-> TRUE, status |-> o.status, data |-> o.data,
          message |-> Str(<<"R", "e", "q", "u", "e", "s", "t", " ", "f", "a", "i", "l", "e", "d", " ", "w", "i", "t", "h", " ", "s", "t", "a", "t", "u", "s", " ", "c", "o", "d", "e", " ">> \o NatToChars(o.status))]
    [] o.kind = "timeout" ->
         [hasResponse |-> FALSE, status |-> 0, data |-> Undef,
          message |-> Str(<<"t", "i", "m", "e", "o", "u", "t", " ", "o", "f", " ">> \o NatToChars(TimeoutMs(vr)) \o <<"m", "s", " ", "e", "x", "c", "e", "e", "d", "e", "d">>)]
    [] OTHER ->
         [hasResponse |-> FALSE, status |-> 0, data |-> Undef,
          message |-> Str(<<"s", "o", "c", "k", "e", "t", " ", "h", "a", "n", "g", " ", "u", "p">>)]

\* the TypeError raised inside mapActivity
TypeError ==
  [hasResponse |-> FALSE, status |-> 0, data |-> Undef,
   message |-> Str(<<"C", "a", "n", "n", "o", "t", " ", "c", "o", "n", "v", "e", "r", "t", " ", "v", "a", "l", "u", "e">>)]

\* whether the axios promise rejects: validateStatus accepts every status in
\* v2 and the 2xx range elsewhere; a call without a response always rejects
Rejects(vr, o) ==
  \/ o.kind # "response"
  \/ vr # "v2" /\ ~(o.status >= 200 /\ o.status < 300)

Envelope(code, message) ==
  [sent |-> 1, status |-> code,
   body |-> Jsonify(Obj([error |-> Bool(TRUE), status |-> N(code), message |-> message]))]

\* the catch blocks of v1, v3 and v4
CatchBlock(vr, err) ==
  LET code == IF err.hasResponse /\ err.status # 0 THEN err.status ELSE 500
      data == IF err.hasResponse THEN err.data ELSE Undef
      msg == IF vr = "v4"
             THEN (IF data.t = "string" THEN data ELSE err.message)
             ELSE Or(data, err.message)
  IN Envelope(code, msg)

ReasonPhrase(status) ==
  CASE status = 304 -> Str(<<"N", "o", "t", " ", "M", "o", "d", "i", "f", "i", "e", "d">>)
    [] status = 404 -> Str(<<"N", "o", "t", " ", "F", "o", "u", "n", "d">>)
    [] status = 503 -> Str(<<"S", "e", "r", "v", "i", "c", "e", " ", "U", "n", "a", "v", "a", "i", "l", "a", "b", "l", "e">>)
    [] OTHER -> Str(<<"O", "K">>)

\* v2: sendBokunError(res, axiosResp)
sendBokunError(o) ==
  Envelope(IF o.status # 0 THEN o.status ELSE 500,
           Or(Or(o.data, ReasonPhrase(o.status)), Str(<<"U", "n", "k", "n", "o", "w", "n", " ", "e", "r", "r", "o", "r", " ", "f", "r", "o", "m", " ", "B", "o", "k", "u", "n">>)))

Success(body) == [sent |-> 1, status |-> 200, body |-> Jsonify(body)]

\* Express 5 hands a rejected handler promise to its default error handler,
\* which answers 500 with an HTML page
DefaultErrorPage == [sent |-> 1, status |-> 500, body |-> Str(<<"<", "p", "r", "e", ">", "E", "r", "r", "o", "r", "<", "/", "p", "r", "e", ">">>)]

-----------------------------------------------------------------------------
(* inputs: inbound requests and upstream outcomes *)

MaxItems == 2

\* query strings of GET /api/tours, as Express parses them
ListQueries ==
  {EmptyObj,
   Obj([page |-> Str(<<"2">>), pageSize |-> Str(<<"1", "0">>), query |-> Str(<<"w", "h", "a", "l", "e">>)]),
   Obj([pageSize |-> Str(<<"1", "0", "0">>)]),
   Obj([pageSize |-> Str(<<"0">>)]),
   Obj([pageSize |-> Str(<<"-", "5">>)]),
   Obj([pageSize |-> Str(<<"a", "b", "c">>)]),
   Obj([pageSize |-> Str(<<"2", ".", "5">>)]),
   Obj([pageSize |-> Str(<<"5", "0">>), page |-> Str(<<"a", "b", "c">>)]),
   Obj([limit |-> Str(<<"7">>), pageSize |-> Str(<<"1", "0">>)]),
   Obj([limit |-> Str(<<"5", "1">>), page |-> Str(<<"0">>)]),
   Obj([limit |-> Str(<<"2", ".", "5">>)]),
   Obj([query |-> Str(<<" ", "w", "h", "a", "l", "e", " ">>)]),
   Obj([query |-> Str(<<" ", " ">>), page |-> Str(<<"-", "1">>)]),
   Obj([q |-> Str(<<"r", "e", "e", "f">>), pageSize |-> sEmpty])}

\* path parameters of GET /api/tours/:id
TourIds == {Str(<<"7">>), Str(<<"a", " ", "b">>)}

GoodItem == Obj([id |-> N(7), title |-> sName, slug |-> sReef])

\* elements of an upstream result list: well formed, without any field, and
\* not an object at all
ItemPool == {GoodItem, EmptyObj, Null}

ItemLists == UNION {[1..n -> ItemPool] : n \in 0..MaxItems}

\* 2xx search payloads that expose a list
ListedPayloads ==
  UNION {{Obj([results |-> Arr(l), total |-> N(37)]), Obj([results |-> Arr(l)]),
          Obj([items |-> Arr(l)]), Arr(l)} : l \in ItemLists}

\* 2xx search payloads that expose none
UnlistedPayloads ==
  {Null, EmptyObj, sEmpty, sName, N(5),
   Obj([total |-> N(37)]), Obj([total |-> Null]),
   Obj([results |-> sName, items |-> EmptyObj, total |-> N(0)]),
   Obj([results |-> Null, items |-> N(3)])}

ListPayloads == ListedPayloads \cup UnlistedPayloads

DetailPayloads ==
  {GoodItem, EmptyObj, Null, sEmpty, Obj([slug |-> ShadowObj]),
   Obj([activityId |-> N(9), name |-> sReef, pricing |-> Obj([currency |-> sEmpty])])}

ErrorStatuses == {304, 404, 503}

ErrorPayloads == {sEmpty, Str(<<"d", "e", "n", "i", "e", "d">>), Obj([message |-> Str(<<"d", "e", "n", "i", "e", "d">>)])}

\* what the upstream call can end in: a response, or no response at all
Outcomes(kind) ==
  {[kind |-> "response", status |-> 200, data |-> d] :
     d \in IF kind = "list" THEN ListPayloads ELSE DetailPayloads}
  \cup {[kind |-> "response", status |-> st, data |-> d] :
          st \in ErrorStatuses, d \in ErrorPayloads}
  \cup {[kind |-> k, status |-> 0, data |-> Undef] : k \in {"timeout", "reset"}}

-----------------------------------------------------------------------------
(* the handlers *)

CanAccept == proc = "listening" /\ req.pc \in {"idle", "done"}

\* app.get("/api/tours") up to the await: the upstream call is issued
ListTours ==
  \E q \in ListQueries :
    /\ CanAccept
    /\ req' = [pc |-> "awaiting", kind |-> "list", query |-> q,
               call |-> SearchCall(variant, q, env),
               upstream |-> NoOutcome, res |-> NoResponse]
    /\ UNCHANGED <<variant, env, proc, headers, raw, tour, flight>>

\* app.get("/api/tours/:id") up to the await
GetTour ==
  \E id \in TourIds :
    /\ CanAccept
    /\ req' = [pc |-> "awaiting", kind |-> "detail", query |-> Obj([id |-> id]),
               call |-> DetailCall(variant, id),
               upstream |-> NoOutcome, res |-> NoResponse]
    /\ UNCHANGED <<variant, env, proc, headers, raw, tour, flight>>

\* the axios promise settles: a response arrives, the timeout fires or the
\* connection fails
UpstreamSettle ==
  \E o \in Outcomes(req.kind) :
    /\ proc = "listening"
    /\ req.pc = "awaiting"
    /\ req' = [req EXCEPT !.pc = "settled", !.upstream = o]
    /\ UNCHANGED <<variant, env, proc, headers, raw, tour, flight>>

\* the handler ends having written `r`
Respond(r) ==
  /\ req' = [req EXCEPT !.pc = "done", !.res = r]
  /\ UNCHANGED <<variant, env, proc, headers, raw, tour, flight>>

\* v2: the async handler rejects and nothing in it catches.  Express 4 drops
\* the rejection and Node 18 ends the process on it; Express 5 answers with
\* its default error page
Unhandled ==
  \/ /\ proc' = "crashed"
     /\ req' = [req EXCEPT !.pc = "lost"]
     /\ UNCHANGED <<variant, env, headers, raw, tour, flight>>
  \/ Respond(DefaultErrorPage)

\* the handler promise rejected with nothing to catch it: no response written
Rejected == [sent |-> 0, status |-> 0, body |-> Throw]

\* what the rest of the handler writes for the settled call `o`, `result`
\* being the success body it composes or the exception composing it raised
Reply(vr, o, result) ==
  IF vr = "v2"
  THEN IF o.kind # "response" THEN Rejected
       ELSE IF o.status >= 400 THEN sendBokunError(o)
       ELSE IF result = Throw THEN Rejected
       ELSE Success(result)
  ELSE IF Rejects(vr, o) THEN CatchBlock(vr, AxiosError(vr, o))
       ELSE IF result = Throw THEN CatchBlock(vr, TypeError)
       ELSE Success(result)

\* the rest of the handler, from the settled promise to the response
Resume(result) ==
  /\ proc = "listening"
  /\ req.pc = "settled"
  /\ IF Reply(variant, req.upstream, result) = Rejected THEN Unhandled
     ELSE Respond(Reply(variant, req.upstream, result))

\* app.get("/api/tours") after the await
ListToursResume ==
  /\ req.kind = "list"
  /\ Resume(ListResult(variant, req.query, req.upstream.data))

\* app.get("/api/tours/:id") after the await
GetTourResume ==
  /\ req.kind = "detail"
  /\ Resume(DetailResult(variant, req.upstream.data))

Next ==
  \/ Startup
  \/ ListTours
  \/ GetTour
  \/ UpstreamSettle
  \/ ListToursResume
  \/ GetTourResume

Spec == Init /\ [][Next]_vars

\* the runtime runs every enabled continuation: startup completes, a pending
\* upstream call settles (the axios timeout bounds it), a settled handler
\* resumes
FairSpec ==
  Spec /\ WF_vars(Startup) /\ WF_vars(UpstreamSettle)
       /\ WF_vars(ListToursResume) /\ WF_vars(GetTourResume)

-----------------------------------------------------------------------------
(* several inbound requests in flight at once: each handler invocation is  *)
(* its own async function, interleaved with the others at its await        *)

\* configurations of the concurrent runs: the key pair set, or nothing set
ConcEnvs ==
  {e \in Envs : /\ e.token = Undef
                /\ e.vendor = Undef
                /\ (e.key = Undef) = (e.secret = Undef)}

ConcQueries ==
  {q \in ListQueries : q = EmptyObj \/ Get(q, "query") = Str(<<"w", "h", "a", "l", "e">>)}

ConcIds == {id \in TourIds : id = Str(<<"7">>)}

\* how the upstream call of a concurrent request can end: a good payload, a
\* payload the handler cannot map, a 404 with a text body, the timeout
ConcOutcomes(kind) ==
  {o \in Outcomes(kind) :
     \/ o.kind = "timeout"
     \/ o.status = 404 /\ o.data.t = "string" /\ o.data # sEmpty
     \/ o.status = 200 /\ o.data \in {GoodItem, Null, Arr(<<GoodItem>>), Arr(<<Null>>)}}

ConcInit ==
  /\ variant \in Variants
  /\ env \in ConcEnvs
  /\ proc = "starting"
  /\ headers = {}
  /\ req = Idle
  /\ raw = Undef
  /\ tour = Undef
  /\ flight = NoFlight

\* the upstream calls the handler issues up to its await: the one bokun.post
\* or bokun.get
CallsOnEntry(kind) == 1

CallsOnResume_Retry(vr, o) == IF o.kind # "response" \/ o.status >= 400 THEN 1 ELSE 0

\* the upstream calls the handler issues after its await, whatever the call
\* `o` settled with: neither the success path nor the catch block calls the
\* client again
CallsOnResume(vr, o) == 0

\* app.get("/api/tours") for request r, up to the await
ConcListTours(r) ==
  \E q \in ConcQueries :
    /\ proc = "listening"
    /\ flight[r].pc = "idle"
    /\ flight' = [flight EXCEPT ![r] =
                    [pc |-> "awaiting", kind |-> "list", query |-> q,
                     call |-> SearchCall(variant, q, env),
                     upstream |-> NoOutcome, res |-> NoResponse,
                     calls |-> flight[r].calls + CallsOnEntry("list")]]
    /\ UNCHANGED <<variant, env, proc, headers, req, raw, tour>>

\* app.get("/api/tours/:id") for request r, up to the await
ConcGetTour(r) ==
  \E id \in ConcIds :
    /\ proc = "listening"
    /\ flight[r].pc = "idle"
    /\ flight' = [flight EXCEPT ![r] =
                    [pc |-> "awaiting", kind |-> "detail", query |-> Obj([id |-> id]),
                     call |-> DetailCall(variant, id),
                     upstream |-> NoOutcome, res |-> NoResponse,
                     calls |-> flight[r].calls + CallsOnEntry("detail")]]
    /\ UNCHANGED <<variant, env, proc, headers, req, raw, tour>>

\* the axios promise of request r settles
ConcSettle(r) ==
  \E o \in ConcOutcomes(flight[r].kind) :
    /\ proc = "listening"
    /\ flight[r].pc = "awaiting"
    /\ flight' = [flight EXCEPT ![r].pc = "settled", ![r].upstream = o]
    /\ UNCHANGED <<variant, env, proc, headers, req, raw, tour>>

\* the success body the handler of request r composes
ConcResult(r) ==
  IF flight[r].kind = "list"
  THEN ListResult(variant, flight[r].query, flight[r].upstream.data)
  ELSE DetailResult(variant, flight[r].upstream.data)

\* the handler of request r after its await, to the response
ConcResume(r) ==
  /\ proc = "listening"
  /\ flight[r].pc = "settled"
  /\ IF CallsOnResume(variant, flight[r].upstream) > 0
     THEN /\ flight' = [flight EXCEPT
                          ![r].pc = "awaiting",
                          ![r].upstream = NoOutcome,
                          ![r].calls = @ + CallsOnResume(variant, flight[r].upstream)]
          /\ UNCHANGED proc
     ELSE IF Reply(variant, flight[r].upstream, ConcResult(r)) = Rejected
     THEN \/ /\ proc' = "crashed"
             /\ flight' = [flight EXCEPT ![r].pc = "lost"]
          \/ /\ flight' = [flight EXCEPT ![r].pc = "done", ![r].res = DefaultErrorPage]
             /\ UNCHANGED proc
     ELSE /\ flight' = [flight EXCEPT
                          ![r].pc = "done",
                          ![r].res = Reply(variant, flight[r].upstream, ConcResult(r))]
          /\ UNCHANGED proc
  /\ UNCHANGED <<variant, env, headers, req, raw, tour>>

ConcNext ==
  \/ Startup
  \/ \E r \in Requests : ConcListTours(r)
  \/ \E r \in Requests : ConcGetTour(r)
  \/ \E r \in Requests : ConcSettle(r)
  \/ \E r \in Requests : ConcResume(r)

ConcSpec == ConcInit /\ [][ConcNext]_vars

-----------------------------------------------------------------------------
(* claims about the gateway, checked under Spec *)

HasOwn(a, k) == a.t = "object" /\ k \in DOMAIN a.v

IsNonEmptyString(x) == x.t = "string" /\ x.v # <<>>

\* the handler of the current request has run to its end
Finished == req.pc \in {"done", "lost"}

SentPageSize == Get(req.call.body, "pageSize")

\* C1: whatever pageSize or limit the caller passes, the pageSize of the
\* upstream search body is an integer in 1..50, and a ListResult returns
\* that same pageSize.
C1_PageSizeClamped ==
  req.kind = "list" =>
    /\ IsInteger(SentPageSize)
    /\ SentPageSize.v >= 10 /\ SentPageSize.v <= MaxPageSize * 10
    /\ (req.pc = "done" /\ req.res.status = 200)
         => Get(req.res.body, "pageSize") = SentPageSize

HasToken == Truthy(env.token)

HasKeyPair == Truthy(env.key) /\ Truthy(env.secret)

TokenMode == "X-Bokun-Access-Token" \in headers \/ "Authorization" \in headers

KeyPairMode == "Bokun-Access-Key" \in headers /\ "Bokun-Secret-Key" \in headers

\* C2: once startup has run, a configured token has selected token mode
\* alone; without a token a complete key pair has selected key-pair mode
\* alone; with neither the process has halted, no request was accepted and
\* no upstream call was issued.
C2_CredentialPrecedence ==
  proc # "starting" =>
    /\ HasToken => (proc # "exited" /\ TokenMode /\ ~KeyPairMode)
    /\ (~HasToken /\ HasKeyPair) => (proc # "exited" /\ KeyPairMode /\ ~TokenMode)
    /\ (~HasToken /\ ~HasKeyPair) => (proc = "exited" /\ req.pc = "idle")

\* the response is the error envelope {error: true, status, message} sent
\* with HTTP status st
IsEnvelope(r, st) ==
  /\ r.sent = 1
  /\ r.status = st
  /\ Get(r.body, "error") = Bool(TRUE)
  /\ Get(r.body, "status") = N(st)
  /\ HasOwn(r.body, "message")

\* the response is a ListResult or a Tour with its raw payload
IsSuccessBody(r) ==
  /\ r.sent = 1
  /\ r.status = 200
  /\ HasOwn(r.body, "items") \/ HasOwn(r.body, "raw")

\* C3: when the upstream call ended in a 4xx or 5xx response with status S,
\* the inbound response is the error envelope with status S; when it ended
\* without a response, the inbound response is the error envelope with
\* status 500.
C3_ErrorEnvelope ==
  Finished =>
    /\ (req.upstream.kind = "response" /\ req.upstream.status >= 400)
         => IsEnvelope(req.res, req.upstream.status)
    /\ req.upstream.kind \in {"timeout", "reset"} => IsEnvelope(req.res, 500)

\* C4: whatever the upstream outcome, the process is not terminated and the
\* handler does not end without exactly one response, a success body or the
\* error envelope.
C4_AlwaysAnswered ==
  /\ proc # "crashed"
  /\ req.pc # "lost"
  /\ req.pc = "done"
       => (IsSuccessBody(req.res) \/ IsEnvelope(req.res, req.res.status))

\* a 2xx search payload with no list under results, none under items, and
\* not itself an array
UnlistedSuccess ==
  /\ req.kind = "list"
  /\ Finished
  /\ req.upstream.kind = "response"
  /\ req.upstream.status = 200
  /\ ~IsArray(OptGet(req.upstream.data, "results"))
  /\ ~IsArray(OptGet(req.upstream.data, "items"))
  /\ ~IsArray(req.upstream.data)

EmptyListResponse ==
  /\ req.res.sent = 1
  /\ req.res.status = 200
  /\ Get(req.res.body, "items") = Arr(<<>>)

UpstreamTotal == OptGet(req.upstream.data, "total")

\* C5 as stated: such a payload yields items = [] and total = 0, also when
\* the payload carries a total field.
C5_UnlistedTotalZero ==
  UnlistedSuccess => (EmptyListResponse /\ Get(req.res.body, "total") = N(0))

\* C5 as amended: such a payload yields items = [], and total is the
\* payload's own total when it carries one that is not null, and 0
\* otherwise.
C5_UnlistedTotal ==
  UnlistedSuccess =>
    /\ EmptyListResponse
    /\ Get(req.res.body, "total")
         = (IF IsNullish(UpstreamTotal) THEN N(0) ELSE UpstreamTotal)

C5_Witness ==
  /\ UnlistedSuccess
  /\ UpstreamTotal = N(37)
  /\ EmptyListResponse
  /\ Get(req.res.body, "total") = N(37)

WhaleQuery == Obj([page |-> Str(<<"2">>), pageSize |-> Str(<<"1", "0">>), query |-> Str(<<"w", "h", "a", "l", "e">>)])

WhaleBody == Obj([page |-> N(2), pageSize |-> N(10), query |-> Str(<<"w", "h", "a", "l", "e">>)])

\* the trimmed text of the inbound `query` parameter
InboundText == Trim(ToChars(Or(Get(req.query, "query"), sEmpty)))

\* C6: the search body has the key query exactly when the trimmed inbound
\* query text is non-empty, and then holds the trimmed text; it has the key
\* vendorId exactly when a vendor id is configured; page=2, pageSize=10,
\* query=whale without a vendor gives exactly {page: 2, pageSize: 10,
\* query: "whale"}.
C6_ConditionalKeys ==
  (req.kind = "list" /\ ~HasOwn(req.query, "q")) =>
    /\ HasOwn(req.call.body, "query") <=> InboundText # <<>>
    /\ HasOwn(req.call.body, "query") => Get(req.call.body, "query") = Str(InboundText)
    /\ HasOwn(req.call.body, "vendorId") <=> Truthy(env.vendor)
    /\ (req.query = WhaleQuery /\ ~Truthy(env.vendor)) => req.call.body = WhaleBody

\* the list the handler takes from a 2xx search payload
UpstreamList == rawItems(variant, req.upstream.data)

\* a search that got a 2xx payload, with the handler run to its end
ListedSuccess ==
  /\ req.kind = "list"
  /\ Finished
  /\ req.upstream.kind = "response"
  /\ req.upstream.status = 200

ResponseItems == Get(req.res.body, "items")

\* C11: a successful search yields a successful list response whose items
\* hold one Tour per element of the upstream list, in order: the Tour of an
\* object element is the one mapActivity gives that element alone, and an
\* element that is no object (null) is still emitted as a Tour record.
C11_OneTourPerElement ==
  ListedSuccess =>
    /\ req.res.sent = 1
    /\ req.res.status = 200
    /\ IsArray(ResponseItems)
    /\ Len(ResponseItems.v) = Len(UpstreamList.v)
    /\ \A i \in 1..Len(UpstreamList.v) :
         IF UpstreamList.v[i].t = "object"
         THEN ResponseItems.v[i] = Jsonify(mapActivity(variant, UpstreamList.v[i]))
         ELSE ResponseItems.v[i].t = "object"

-----------------------------------------------------------------------------
(* claims about concurrent requests, checked under ConcSpec *)

\* the inbound requests received so far
Received == {r \in Requests : flight[r].pc # "idle"}

RECURSIVE SumCalls(_)
SumCalls(S) ==
  IF S = {} THEN 0
  ELSE LET r == CHOOSE x \in S : TRUE IN flight[r].calls + SumCalls(S \ {r})

\* the upstream calls issued so far, over all requests
IssuedTotal == SumCalls(Requests)

\* C12: for every inbound request at most one upstream call is ever issued
\* (so none is repeated after a failure), the call is issued and has settled
\* before a response is written, a request not yet received has caused no
\* call, and over all the requests in flight the calls issued never exceed
\* the requests received.
C12_SingleUpstreamCall ==
  /\ \A r \in Requests :
       /\ flight[r].calls <= 1
       /\ flight[r].pc = "idle" => flight[r].calls = 0
       /\ flight[r].pc = "awaiting" => flight[r].res.sent = 0
       /\ flight[r].res.sent >= 1 =>
            /\ flight[r].calls = 1
            /\ flight[r].pc = "done"
            /\ flight[r].upstream.kind # "none"
  /\ IssuedTotal <= Cardinality(Received)

\* two requests in flight at once: one answered with the error envelope after
\* its upstream call failed, the other still waiting for its own call
C12_Witness ==
  \E r1, r2 \in Requests :
    /\ r1 # r2
    /\ flight[r1].pc = "done"
    /\ flight[r1].upstream.kind = "timeout"
    /\ flight[r1].res.sent = 1
    /\ flight[r1].res.status = 500
    /\ flight[r1].calls = 1
    /\ flight[r2].pc = "awaiting"
    /\ flight[r2].calls = 1
    /\ IssuedTotal = 2

-----------------------------------------------------------------------------
(* the normalizer on its own: one raw value in, one Tour (or exception) out *)

NoEnv == [key |-> Undef, secret |-> Undef, token |-> Undef, vendor |-> Undef]

NormInit ==
  /\ variant \in Variants
  /\ env = NoEnv
  /\ proc = "starting"
  /\ headers = {}
  /\ req = Idle
  /\ raw = Undef
  /\ tour = Undef
  /\ flight = NoFlight

\* applied once: tour is undefined until mapActivity has returned or thrown
Normalize ==
  \E a \in RawInputs :
    /\ tour = Undef
    /\ raw' = a
    /\ tour' = mapActivity(variant, a)
    /\ UNCHANGED <<variant, env, proc, headers, req, flight>>

NormNext == Normalize

NormSpec == NormInit /\ [][NormNext]_vars

-----------------------------------------------------------------------------
(* claims about the normalizer, checked under NormSpec *)

Normalized == raw.t = "object" /\ tour # Undef

\* C7: mapActivity is total: for every raw JSON object it returns a Tour
\* record and does not throw.
C7_NormalizeTotal == Normalized => tour.t = "object"

NestedRating(a) == OptGet(Get(a, "feedback"), "averageRating")

ExplicitCover(a) == OptGet(Get(a, "coverImage"), "url")

\* C8: when the record has a nested feedback block with a numeric average
\* rating and also a flat rating field, Tour.rating is the nested value (0
\* included); when it has an explicit cover-image URL and also an images or
\* media collection, Tour.cover is the explicit cover-image URL.
C8_FallbackOrder ==
  (Normalized /\ tour.t = "object") =>
    /\ (NestedRating(raw).t = "number" /\ HasOwn(raw, "rating"))
         => Get(tour, "rating") = NestedRating(raw)
    /\ (IsNonEmptyString(ExplicitCover(raw))
          /\ (HasOwn(raw, "images") \/ HasOwn(raw, "media")))
         => Get(tour, "cover") = ExplicitCover(raw)

\* the id the specification's chain resolves: generic id, activity id,
\* product id, provider id
ResolvedId(a) ==
  Nullish(Nullish(Nullish(Get(a, "id"), Get(a, "activityId")),
                  Get(a, "productId")), Get(a, "bokunId"))

\* records whose link fields have the types the data model gives them
WellTypedLink(a) ==
  /\ Get(a, "publicUrl").t \in {"undefined", "string"}
  /\ Get(a, "slug").t \in {"undefined", "null", "string"}
  /\ ResolvedId(a).t \in {"undefined", "number", "string"}

ClaimedUrl(a) ==
  IF IsNonEmptyString(Get(a, "publicUrl")) THEN Get(a, "publicUrl")
  ELSE IF IsNonEmptyString(Get(a, "slug")) THEN Template(ToursPath, Get(a, "slug"))
  ELSE IF ~IsNullish(ResolvedId(a)) THEN Template(ToursPath, ResolvedId(a))
  ELSE Null

\* C9: Tour.url is the public URL when present, else "/tours/{slug}" when a
\* slug is present, else "/tours/{id}" when an id resolves, else null.
C9_UrlChain ==
  (Normalized /\ tour.t = "object" /\ WellTypedLink(raw))
    => Get(tour, "url") = ClaimedUrl(raw)

PriceBlocks == <<"priceFrom", "fromPrice", "lowestPrice", "price", "pricing">>

\* the currency of the first block of the chain, from position i on, that
\* yields a non-empty string, and "USD" when none does
RECURSIVE ClaimedCurrency(_, _)
ClaimedCurrency(a, i) ==
  IF i > Len(PriceBlocks) THEN USD
  ELSE LET c == OptGet(Get(a, PriceBlocks[i]), "currency")
       IN IF IsNonEmptyString(c) THEN c ELSE ClaimedCurrency(a, i + 1)

\* C10: Tour.currency is a non-empty string: the currency of the first price
\* block that yields one, "USD" when none does (a block with an empty-string
\* or null currency yields none).
C10_CurrencyNonEmpty ==
  (Normalized /\ tour.t = "object") =>
    /\ IsNonEmptyString(Get(tour, "currency"))
    /\ Get(tour, "currency") = ClaimedCurrency(raw, 1)

====
